---- MODULE Spec2Model ----
(***************************************************************************)
(* chainlink: the issue store (db.rs) and the command layer above it.      *)
(* The SQLite tables are the state; every Database method is one SQL       *)
(* statement and is modelled as one atomic action.  Foreign keys are       *)
(* enforced (PRAGMA foreign_keys = ON), so a statement that would leave a  *)
(* dangling reference fails as a whole and a DELETE cascades.              *)
(***************************************************************************)
EXTENDS Integers, Sequences, FiniteSets, TLC

VARIABLES
    issues,            \* table issues: id -> row, DOMAIN issues = the stored ids
    seq,               \* sqlite_sequence of issues (AUTOINCREMENT): largest id ever given
    dependencies,      \* table dependencies: row -> number of stored copies
    relations,         \* table relations: row -> number of stored copies
    milestones,        \* table milestones: id -> row
    milestone_issues,  \* table milestone_issues: row -> number of stored copies
    mseq,              \* sqlite_sequence of milestones
    sessions,          \* table sessions: id -> row
    labels,            \* table labels: row -> number of stored copies
    pc,                \* the issue an archive command in flight has checked, or NULL
    now,               \* Utc::now(), as a counter
    last               \* the call that made the last step, and what it returned

vars == <<issues, seq, dependencies, relations, milestones, mseq, milestone_issues,
          sessions, labels, pc, now, last>>

issue_vars == <<issues, seq>>
edge_vars == <<dependencies, relations, milestone_issues>>
other_vars == <<milestones, mseq, sessions, labels, pc>>

\* ---------------------------------------------------------------- bounds
MaxId == 3          \* issues ever created
MaxEdges == 3       \* rows of dependencies, relations and milestone_issues together
MaxMilestones == 1  \* milestones ever created
MaxSessions == 1    \* sessions ever started
MaxTime == 2        \* clock ticks

\* SQL NULL in a nullable INTEGER or timestamp column (ids and times start at 1)
NULL == 0

\* SQL NULL / Option::None in a text column
NoText == "<none>"

IdArgs == 1..MaxId
MilestoneArgs == 1..MaxMilestones
MaxListLen == 3
\* the id lists a command line can carry, repetitions and unknown ids included
IdLists == UNION {[1..n -> IdArgs] : n \in 0..MaxListLen}
SessionArgs == 1..MaxSessions

\* ---------------------------------------------------------------- helpers
RECURSIVE SortAsc(_)
\* ORDER BY id: the ids of S in ascending order
SortAsc(S) ==
    IF S = {} THEN <<>>
    ELSE LET m == CHOOSE x \in S : \A y \in S : x <= y
         IN <<m>> \o SortAsc(S \ {m})

Range(s) == {s[k] : k \in 1..Len(s)}

Count(s, x) == Cardinality({k \in 1..Len(s) : s[k] = x})

\* the rows of an edge table, and the number of rows counting copies
Rows(t) == DOMAIN t

RECURSIVE NumRows(_)
NumRows(t) ==
    IF DOMAIN t = {} THEN 0
    ELSE LET r == CHOOSE x \in DOMAIN t : TRUE
         IN t[r] + NumRows([x \in DOMAIN t \ {r} |-> t[x]])

EmptyTable == [x \in {} |-> 0]

\* DELETE without the WHERE clause
DeleteEveryRow(t, gone) == [x \in {} |-> 0]

\* DELETE FROM t WHERE row \in gone
DeleteRows(t, gone) == [x \in DOMAIN t \ gone |-> t[x]]

\* INSERT without a uniqueness check: one more copy of the row
InsertPlain(t, r) ==
    [x \in DOMAIN t \cup {r} |->
        IF x = r THEN (IF r \in DOMAIN t THEN t[r] + 1 ELSE 1) ELSE t[x]]

\* INSERT OR IGNORE under the table's PRIMARY KEY over the whole row
InsertOrIgnore(t, r) ==
    IF r \in DOMAIN t
    THEN t
    ELSE [x \in DOMAIN t \cup {r} |-> IF x = r THEN 1 ELSE t[x]]

Call(op, a, b, ret) == [op |-> op, a |-> a, b |-> b, ret |-> ret]

\* ---------------------------------------------------------------- rows
IssueRow(title, description, priority, parent_id, t) ==
    [title |-> title, description |-> description, status |-> "open",
     priority |-> priority, parent_id |-> parent_id,
     created_at |-> t, updated_at |-> t, closed_at |-> NULL]

Dep(blocker_id, blocked_id) == [blocker_id |-> blocker_id, blocked_id |-> blocked_id]

Rel(a, b) == [issue_id_1 |-> a, issue_id_2 |-> b]

Label(issue_id, label) == [issue_id |-> issue_id, label |-> label]

Member(milestone_id, issue_id) == [milestone_id |-> milestone_id, issue_id |-> issue_id]

\* ---------------------------------------------------------------- queries
\* a lookup that finds an issue under every id
get_issue_any(id) == TRUE

\* SELECT ... FROM issues WHERE id = ?1: Some(issue) or None
get_issue(id) == id \in DOMAIN issues

status_of(iss, id) == IF id \in DOMAIN iss THEN iss[id].status ELSE "absent"

\* the join with an extra condition that leaves out an issue's edge to itself
blocked_join_no_self(iss, deps) ==
    LET J == {d \in Rows(deps) :
                /\ d.blocked_id # d.blocker_id
                /\ d.blocked_id \in DOMAIN iss
                /\ d.blocker_id \in DOMAIN iss
                /\ iss[d.blocked_id].status = "open"
                /\ iss[d.blocker_id].status = "open"}
    IN [i \in {d.blocked_id : d \in J} |->
           NumRows([d \in {e \in J : e.blocked_id = i} |-> deps[d]])]

\* the open issues joined with their open direct blockers, projected on the
\* blocked issue: blocked id -> number of joined rows
blocked_join(iss, deps) ==
    LET J == {d \in Rows(deps) :
                /\ d.blocked_id \in DOMAIN iss
                /\ d.blocker_id \in DOMAIN iss
                /\ iss[d.blocked_id].status = "open"
                /\ iss[d.blocker_id].status = "open"}
    IN [i \in {d.blocked_id : d \in J} |->
           NumRows([d \in {e \in J : e.blocked_id = i} |-> deps[d]])]

RECURSIVE Expand(_, _)
\* the ids of list s, each repeated n[id] times
Expand(s, n) ==
    IF s = <<>> THEN <<>>
    ELSE [k \in 1..n[Head(s)] |-> Head(s)] \o Expand(Tail(s), n)

\* the same join without DISTINCT: one result row per joined row
list_blocked_issues_all(iss, deps) ==
    Expand(SortAsc(DOMAIN blocked_join(iss, deps)), blocked_join(iss, deps))

\* SELECT DISTINCT i.* ... WHERE i.status = 'open' AND blocker.status = 'open' ORDER BY i.id
list_blocked_issues(iss, deps) == SortAsc(DOMAIN blocked_join(iss, deps))

\* a subquery that counts every blocker, whatever its status
has_any_blocker(iss, deps, i) == \E d \in Rows(deps) : d.blocked_id = i

\* the NOT EXISTS subquery of list_ready_issues for issue i
has_open_blocker(iss, deps, i) ==
    \E d \in Rows(deps) :
        /\ d.blocked_id = i
        /\ d.blocker_id \in DOMAIN iss
        /\ iss[d.blocker_id].status = "open"

\* a ready query that also wants the issue never to have been edited
list_ready_issues_unedited(iss, deps) ==
    SortAsc({i \in DOMAIN iss :
                /\ iss[i].status = "open" /\ iss[i].updated_at = iss[i].created_at
                /\ ~has_open_blocker(iss, deps, i)})

\* the ready query without its status condition
list_ready_issues_any_status(iss, deps) ==
    SortAsc({i \in DOMAIN iss : ~has_open_blocker(iss, deps, i)})

\* SELECT i.* FROM issues i WHERE i.status = 'open' AND NOT EXISTS (...) ORDER BY i.id
list_ready_issues(iss, deps) ==
    SortAsc({i \in DOMAIN iss : iss[i].status = "open" /\ ~has_open_blocker(iss, deps, i)})

\* SELECT blocker_id FROM dependencies WHERE blocked_id = ?1 (one entry per stored row)
get_blockers(deps, issue_id) ==
    LET n == [a \in {d.blocker_id : d \in {e \in Rows(deps) : e.blocked_id = issue_id}} |->
                 deps[Dep(a, issue_id)]]
    IN Expand(SortAsc(DOMAIN n), n)

\* get_blocking reading the column get_blockers reads
get_blocking_same_column(deps, issue_id) == get_blockers(deps, issue_id)

\* SELECT blocked_id FROM dependencies WHERE blocker_id = ?1 (one entry per stored row)
get_blocking(deps, issue_id) ==
    LET n == [b \in {d.blocked_id : d \in {e \in Rows(deps) : e.blocker_id = issue_id}} |->
                 deps[Dep(issue_id, b)]]
    IN Expand(SortAsc(DOMAIN n), n)

\* the query with the first SELECT of the UNION only
get_related_issues_forward(iss, rels, issue_id) ==
    SortAsc({i \in DOMAIN iss :
                i \in {r.issue_id_2 : r \in {x \in Rows(rels) : x.issue_id_1 = issue_id}}})

\* SELECT i.* FROM issues i WHERE i.id IN (... UNION ...) ORDER BY i.id
get_related_issues(iss, rels, issue_id) ==
    SortAsc({i \in DOMAIN iss :
                i \in {r.issue_id_2 : r \in {x \in Rows(rels) : x.issue_id_1 = issue_id}}
                      \cup {r.issue_id_1 : r \in {x \in Rows(rels) : x.issue_id_2 = issue_id}}})

\* SELECT i.* FROM issues i JOIN milestone_issues mi ON i.id = mi.issue_id
\* WHERE mi.milestone_id = ?1 ORDER BY i.id (one entry per joined row)
get_milestone_issues(iss, mi, milestone_id) ==
    LET n == [i \in {r.issue_id : r \in {x \in Rows(mi) :
                                            x.milestone_id = milestone_id
                                            /\ x.issue_id \in DOMAIN iss}} |->
                 mi[Member(milestone_id, i)]]
    IN Expand(SortAsc(DOMAIN n), n)

\* a count of the members that are not open
not_open_count(iss, list) ==
    Cardinality({k \in 1..Len(list) : iss[list[k]].status # "open"})

\* issues.iter().filter(|i| i.status == "closed").count()
closed_count(iss, list) ==
    Cardinality({k \in 1..Len(list) : iss[list[k]].status = "closed"})

\* the progress the milestone commands print: closed/total, "0/0" without members
progress(iss, mi, milestone_id) ==
    LET list == get_milestone_issues(iss, mi, milestone_id)
        total == Len(list)
        closed == closed_count(iss, list)
    IN IF total > 0 THEN <<closed, total>> ELSE <<0, 0>>

\* ---------------------------------------------------------------- foreign keys
Children(iss, S) == {c \in DOMAIN iss : iss[c].parent_id \in S}

\* a cascade that stops at the children
cascade_one_level(iss, S) == S \cup Children(iss, S)

RECURSIVE Cascade(_, _)
\* the rows of issues a DELETE of the rows S removes: S and, through
\* parent_id ... ON DELETE CASCADE, every descendant
Cascade(iss, S) ==
    LET T == S \cup Children(iss, S)
    IN IF T = S THEN S ELSE Cascade(iss, T)

\* a variant that cascades on the blocker column only
cascade_dependencies_blocker_only(deps, gone) ==
    DeleteRows(deps, {d \in Rows(deps) : d.blocker_id \in gone})

\* dependencies: both columns REFERENCES issues(id) ON DELETE CASCADE
cascade_dependencies(deps, gone) ==
    DeleteRows(deps, {d \in Rows(deps) : d.blocker_id \in gone \/ d.blocked_id \in gone})

\* relations: both columns REFERENCES issues(id) ON DELETE CASCADE
cascade_relations(rels, gone) ==
    DeleteRows(rels, {r \in Rows(rels) : r.issue_id_1 \in gone \/ r.issue_id_2 \in gone})

\* milestone_issues: issue_id REFERENCES issues(id) ON DELETE CASCADE
cascade_milestone_issues(mi, gone) ==
    DeleteRows(mi, {m \in Rows(mi) : m.issue_id \in gone})

\* labels: issue_id REFERENCES issues(id) ON DELETE CASCADE
cascade_labels(lbl, gone) ==
    DeleteRows(lbl, {l \in Rows(lbl) : l.issue_id \in gone})

\* sessions.active_issue_id REFERENCES issues(id), with no ON DELETE action:
\* a DELETE that would leave a session pointing at a removed issue fails
session_references(sess, gone) ==
    \E s \in DOMAIN sess : sess[s].active_issue_id \in gone

\* foreign keys not enforced
fk_off(iss, id) == TRUE

\* the FOREIGN KEY check of an inserted or updated reference: it is a stored issue
fk_issue(iss, id) == id \in DOMAIN iss

\* ---------------------------------------------------------------- statements
\* close that stamps the times and leaves the status
close_stamp_only(iss, id, t) ==
    [i \in DOMAIN iss |->
        IF i = id THEN [iss[i] EXCEPT !.closed_at = t, !.updated_at = t] ELSE iss[i]]

\* close without the WHERE clause: every row is closed
close_every_row(iss, id, t) ==
    [i \in DOMAIN iss |->
        [iss[i] EXCEPT !.status = "closed", !.closed_at = t, !.updated_at = t]]

\* UPDATE issues SET status = 'closed', closed_at = ?1, updated_at = ?1 WHERE id = ?2
close_issue_rows(iss, id, t) ==
    [i \in DOMAIN iss |->
        IF i = id
        THEN [iss[i] EXCEPT !.status = "closed", !.closed_at = t, !.updated_at = t]
        ELSE iss[i]]

\* reopen that stamps the row and leaves its status
reopen_stamp_only(iss, id, t) ==
    [i \in DOMAIN iss |->
        IF i = id THEN [iss[i] EXCEPT !.updated_at = t] ELSE iss[i]]

\* reopen that leaves closed_at as it was
reopen_keep_closed_at(iss, id, t) ==
    [i \in DOMAIN iss |->
        IF i = id THEN [iss[i] EXCEPT !.status = "open", !.updated_at = t] ELSE iss[i]]

\* UPDATE issues SET status = 'open', closed_at = NULL, updated_at = ?1 WHERE id = ?2
reopen_issue_rows(iss, id, t) ==
    [i \in DOMAIN iss |->
        IF i = id
        THEN [iss[i] EXCEPT !.status = "open", !.closed_at = NULL, !.updated_at = t]
        ELSE iss[i]]

\* an archive without the status condition
archive_issue_rows_any(iss, id, t) ==
    [i \in DOMAIN iss |->
        IF i = id
        THEN [iss[i] EXCEPT !.status = "archived", !.updated_at = t]
        ELSE iss[i]]

\* UPDATE issues SET status = 'archived', updated_at = ?1 WHERE id = ?2 AND status = 'closed'
archive_issue_rows(iss, id, t) ==
    [i \in DOMAIN iss |->
        IF i = id /\ iss[i].status = "closed"
        THEN [iss[i] EXCEPT !.status = "archived", !.updated_at = t]
        ELSE iss[i]]

\* UPDATE issues SET status = 'closed', updated_at = ?1 WHERE id = ?2 AND status = 'archived'
unarchive_issue_rows(iss, id, t) ==
    [i \in DOMAIN iss |->
        IF i = id /\ iss[i].status = "archived"
        THEN [iss[i] EXCEPT !.status = "closed", !.updated_at = t]
        ELSE iss[i]]

\* a WHERE clause with closed_at <= ?2
older_or_equal(iss, cutoff) ==
    {i \in DOMAIN iss : iss[i].status = "closed" /\ iss[i].closed_at <= cutoff}

\* the rows archive_older_than's WHERE status = 'closed' AND closed_at < ?2 selects
older_than(iss, cutoff) ==
    {i \in DOMAIN iss : iss[i].status = "closed" /\ iss[i].closed_at < cutoff}

\* no check of the two ids
never_self(issue_id_1, issue_id_2) == FALSE

\* if issue_id_1 == issue_id_2 { bail!("Cannot relate an issue to itself") }
is_self_relation(issue_id_1, issue_id_2) == issue_id_1 = issue_id_2

\* the pair as given, not ordered
as_given_pair(issue_id_1, issue_id_2) == Rel(issue_id_1, issue_id_2)

\* the pair with the larger id first
larger_first_pair(issue_id_1, issue_id_2) ==
    IF issue_id_1 < issue_id_2
    THEN Rel(issue_id_2, issue_id_1)
    ELSE Rel(issue_id_1, issue_id_2)

\* let (a, b) = if issue_id_1 < issue_id_2 { (1, 2) } else { (2, 1) }
canonical_pair(issue_id_1, issue_id_2) ==
    IF issue_id_1 < issue_id_2
    THEN Rel(issue_id_1, issue_id_2)
    ELSE Rel(issue_id_2, issue_id_1)

\* a result that does not look at the number of rows
rows_matched_always(iss, id) == TRUE

\* Ok(rows > 0) of a statement with WHERE id = ?: the id is a stored issue
rows_matched(iss, id) == id \in DOMAIN iss

\* a rowid chosen as one more than the largest stored id (no AUTOINCREMENT)
next_rowid_reusing(iss, s) ==
    IF DOMAIN iss = {} THEN 1
    ELSE (CHOOSE m \in DOMAIN iss : \A i \in DOMAIN iss : i <= m) + 1

\* id INTEGER PRIMARY KEY AUTOINCREMENT: one more than the largest id ever given
next_rowid(iss, s) == s + 1

\* an update that writes every column, NULL for an argument that is None
update_issue_rows_overwrite(iss, id, title, description, priority, t) ==
    [i \in DOMAIN iss |->
        IF i = id
        THEN [iss[i] EXCEPT !.updated_at = t, !.title = title,
                            !.description = description, !.priority = priority]
        ELSE iss[i]]

\* UPDATE issues SET updated_at = ?1 [, title = ..] [, description = ..] [, priority = ..]
\* WHERE id = ?; an argument that is None (NoText) leaves its column alone
update_issue_rows(iss, id, title, description, priority, t) ==
    [i \in DOMAIN iss |->
        IF i = id
        THEN [iss[i] EXCEPT
                 !.updated_at = t,
                 !.title = IF title # NoText THEN title ELSE @,
                 !.description = IF description # NoText THEN description ELSE @,
                 !.priority = IF priority # NoText THEN priority ELSE @]
        ELSE iss[i]]

\* a re-parenting that leaves updated_at as it was
update_parent_rows_unstamped(iss, id, parent_id, t) ==
    [i \in DOMAIN iss |->
        IF i = id THEN [iss[i] EXCEPT !.parent_id = parent_id] ELSE iss[i]]

\* UPDATE issues SET parent_id = ?1, updated_at = ?2 WHERE id = ?3
update_parent_rows(iss, id, parent_id, t) ==
    [i \in DOMAIN iss |->
        IF i = id
        THEN [iss[i] EXCEPT !.parent_id = parent_id, !.updated_at = t]
        ELSE iss[i]]

\* rows of the three edge tables together, for the bound on them
EdgeRowsOf(deps, rels, mi) == NumRows(deps) + NumRows(rels) + NumRows(mi)

EdgeRows == EdgeRowsOf(dependencies, relations, milestone_issues)

Bool(b) == IF b THEN "true" ELSE "false"

\* ---------------------------------------------------------------- initial state
\* Database::open on a new file: init_schema creates empty tables
Init ==
    /\ issues = EmptyTable
    /\ seq = 0
    /\ dependencies = EmptyTable
    /\ relations = EmptyTable
    /\ milestones = EmptyTable
    /\ mseq = 0
    /\ milestone_issues = EmptyTable
    /\ sessions = EmptyTable
    /\ labels = EmptyTable
    /\ pc = NULL
    /\ now = 1
    /\ last = Call("open", 0, 0, "ok")

\* ---------------------------------------------------------------- issue store
\* INSERT INTO issues (...) VALUES (..., 'open', now, now); the id is AUTOINCREMENT.
\* A parent_id that is no stored issue fails the foreign key.
create_issue_with_parent(title, description, priority, parent_id) ==
    /\ seq < MaxId
    /\ IF parent_id # NULL /\ ~fk_issue(issues, parent_id)
       THEN /\ last' = Call("create_issue", 0, parent_id, "err")
            /\ UNCHANGED issue_vars
       ELSE LET id == next_rowid(issues, seq)
            IN /\ issues' = [i \in DOMAIN issues \cup {id} |->
                               IF i = id
                               THEN IssueRow(title, description, priority, parent_id, now)
                               ELSE issues[i]]
               /\ seq' = IF id > seq THEN id ELSE seq
               /\ last' = Call("create_issue", id, parent_id, "ok")
    /\ UNCHANGED <<edge_vars, other_vars, now>>

create_issue(title, description, priority) ==
    create_issue_with_parent(title, description, priority, NULL)

create_subissue(parent_id, title, description, priority) ==
    create_issue_with_parent(title, description, priority, parent_id)

close_issue(id) ==
    /\ issues' = close_issue_rows(issues, id, now)
    /\ last' = Call("close_issue", id, 0, Bool(rows_matched(issues, id)))
    /\ UNCHANGED <<seq, edge_vars, other_vars, now>>

reopen_issue(id) ==
    /\ issues' = reopen_issue_rows(issues, id, now)
    /\ last' = Call("reopen_issue", id, 0, Bool(rows_matched(issues, id)))
    /\ UNCHANGED <<seq, edge_vars, other_vars, now>>

\* DELETE FROM issues WHERE id = ?1, with the schema's foreign keys.
\* last.b notes how many edge rows the cascade removed (rows > 0 counts issues only).
delete_issue(id) ==
    LET gone == IF id \in DOMAIN issues THEN Cascade(issues, {id}) ELSE {}
    IN IF session_references(sessions, gone)
       THEN /\ last' = Call("delete_issue", id, 0, "err")
            /\ UNCHANGED <<issue_vars, edge_vars>>
            /\ UNCHANGED <<other_vars, now>>
       ELSE /\ issues' = [i \in DOMAIN issues \ gone |-> issues[i]]
            /\ dependencies' = cascade_dependencies(dependencies, gone)
            /\ relations' = cascade_relations(relations, gone)
            /\ milestone_issues' = cascade_milestone_issues(milestone_issues, gone)
            /\ last' = Call("delete_issue", id,
                            EdgeRows - EdgeRowsOf(dependencies', relations', milestone_issues'),
                            Bool(rows_matched(issues, id)))
            /\ labels' = cascade_labels(labels, gone)
            /\ UNCHANGED <<seq, milestones, mseq, sessions, pc, now>>

update_issue(id, title, description, priority) ==
    /\ issues' = update_issue_rows(issues, id, title, description, priority, now)
    /\ last' = Call("update_issue", id, <<title, description, priority>>,
                    Bool(rows_matched(issues, id)))
    /\ UNCHANGED <<seq, edge_vars, other_vars, now>>

\* update_parent(id, parent_id: Option<i64>): None is NULL; the new parent_id
\* of a matched row is a foreign key into issues
update_parent(id, parent_id) ==
    IF rows_matched(issues, id) /\ parent_id # NULL /\ ~fk_issue(issues, parent_id)
    THEN /\ last' = Call("update_parent", id, parent_id, "err")
         /\ UNCHANGED <<issue_vars, edge_vars, other_vars, now>>
    ELSE /\ issues' = update_parent_rows(issues, id, parent_id, now)
         /\ last' = Call("update_parent", id, parent_id, Bool(rows_matched(issues, id)))
         /\ UNCHANGED <<seq, edge_vars, other_vars, now>>

archive_issue(id) ==
    /\ issues' = archive_issue_rows(issues, id, now)
    /\ last' = Call("archive_issue", id, 0,
                    Bool(id \in DOMAIN issues /\ issues'[id] # issues[id]))
    /\ UNCHANGED <<seq, edge_vars, other_vars, now>>

unarchive_issue(id) ==
    /\ issues' = unarchive_issue_rows(issues, id, now)
    /\ last' = Call("unarchive_issue", id, 0,
                    Bool(id \in DOMAIN issues /\ issues'[id] # issues[id]))
    /\ UNCHANGED <<seq, edge_vars, other_vars, now>>

\* archive_older_than(days): the cutoff is now - days; returns the number of rows updated
archive_older_than(days) ==
    LET hit == older_than(issues, now - days)
    IN /\ issues' = [i \in DOMAIN issues |->
                        IF i \in hit
                        THEN [issues[i] EXCEPT !.status = "archived", !.updated_at = now]
                        ELSE issues[i]]
       /\ last' = Call("archive_older_than", days, Cardinality(hit), "ok")
       /\ UNCHANGED <<seq, edge_vars, other_vars, now>>

\* ---------------------------------------------------------------- commands/archive.rs
archive(id) ==
    IF ~get_issue(id) \/ issues[id].status # "closed"
    THEN /\ last' = Call("archive", id, 0, "err")
         /\ UNCHANGED <<issue_vars, edge_vars, other_vars, now>>
    ELSE /\ issues' = archive_issue_rows(issues, id, now)
         /\ last' = Call("archive", id, 0, "ok")
         /\ UNCHANGED <<seq, edge_vars, other_vars, now>>

\* the archive command of one process as the two statements it runs, with the
\* statements of other processes between them: first get_issue and the two
\* checks on what it returned ...
archive_check(id) ==
    /\ pc = NULL
    /\ IF ~get_issue(id) \/ issues[id].status # "closed"
       THEN /\ last' = Call("archive", id, 0, "err")
            /\ UNCHANGED <<issue_vars, edge_vars, other_vars, now>>
       ELSE /\ pc' = id
            /\ last' = Call("archive_check", id, 0, "ok")
            /\ UNCHANGED <<issue_vars, edge_vars, milestones, mseq, sessions, labels, now>>

\* ... then archive_issue; the command returns Ok(()) whatever archive_issue
\* returned, which last.b keeps
archive_update ==
    /\ pc # NULL
    /\ issues' = archive_issue_rows(issues, pc, now)
    /\ pc' = NULL
    /\ last' = Call("archive", pc, Bool(issues' # issues), "ok")
    /\ UNCHANGED <<seq, edge_vars, milestones, mseq, sessions, labels, now>>

unarchive(id) ==
    /\ issues' = unarchive_issue_rows(issues, id, now)
    /\ last' = Call("unarchive", id, 0,
                    IF id \in DOMAIN issues /\ issues'[id] # issues[id] THEN "ok" ELSE "err")
    /\ UNCHANGED <<seq, edge_vars, other_vars, now>>

\* ---------------------------------------------------------------- dependencies
\* INSERT OR IGNORE INTO dependencies (blocker_id, blocked_id) VALUES (?1, ?2)
\* with params![blocker_id, blocked_id]; fails when an id is no stored issue
add_dependency(blocked_id, blocker_id) ==
    LET row == Dep(blocker_id, blocked_id)
    IN IF ~fk_issue(issues, blocker_id) \/ ~fk_issue(issues, blocked_id)
       THEN /\ last' = Call("add_dependency", blocked_id, blocker_id, "err")
            /\ UNCHANGED dependencies
            /\ UNCHANGED <<issue_vars, relations, milestone_issues, other_vars, now>>
       ELSE /\ EdgeRows < MaxEdges \/ row \in Rows(dependencies)
            /\ dependencies' = InsertOrIgnore(dependencies, row)
            /\ last' = Call("add_dependency", blocked_id, blocker_id,
                            Bool(row \notin Rows(dependencies)))
            /\ UNCHANGED <<issue_vars, relations, milestone_issues, other_vars, now>>

\* DELETE FROM dependencies WHERE blocker_id = ?1 AND blocked_id = ?2
remove_dependency(blocked_id, blocker_id) ==
    LET row == Dep(blocker_id, blocked_id)
    IN /\ dependencies' = DeleteRows(dependencies, {row})
       /\ last' = Call("remove_dependency", blocked_id, blocker_id,
                       Bool(row \in Rows(dependencies)))
       /\ UNCHANGED <<issue_vars, relations, milestone_issues, other_vars, now>>

\* the four queries as calls: each runs one SELECT through &self and returns
\* the rows it finds
query_list_ready_issues ==
    /\ last' = Call("list_ready_issues", 0, list_ready_issues(issues, dependencies), "ok")
    /\ UNCHANGED <<issue_vars, edge_vars, other_vars, now>>

query_list_blocked_issues ==
    /\ last' = Call("list_blocked_issues", 0, list_blocked_issues(issues, dependencies), "ok")
    /\ UNCHANGED <<issue_vars, edge_vars, other_vars, now>>

query_get_blockers(issue_id) ==
    /\ last' = Call("get_blockers", issue_id, get_blockers(dependencies, issue_id), "ok")
    /\ UNCHANGED <<issue_vars, edge_vars, other_vars, now>>

query_get_blocking(issue_id) ==
    /\ last' = Call("get_blocking", issue_id, get_blocking(dependencies, issue_id), "ok")
    /\ UNCHANGED <<issue_vars, edge_vars, other_vars, now>>

\* ---------------------------------------------------------------- relations
\* the created_at column of relations is written and never read; it is left out
add_relation(issue_id_1, issue_id_2) ==
    LET row == canonical_pair(issue_id_1, issue_id_2)
    IN IF is_self_relation(issue_id_1, issue_id_2)
          \/ ~fk_issue(issues, issue_id_1) \/ ~fk_issue(issues, issue_id_2)
       THEN /\ last' = Call("add_relation", issue_id_1, issue_id_2, "err")
            /\ UNCHANGED relations
            /\ UNCHANGED <<issue_vars, dependencies, milestone_issues, other_vars, now>>
       ELSE /\ EdgeRows < MaxEdges \/ row \in Rows(relations)
            /\ relations' = InsertOrIgnore(relations, row)
            /\ last' = Call("add_relation", issue_id_1, issue_id_2,
                            Bool(row \notin Rows(relations)))
            /\ UNCHANGED <<issue_vars, dependencies, milestone_issues, other_vars, now>>

remove_relation(issue_id_1, issue_id_2) ==
    LET row == canonical_pair(issue_id_1, issue_id_2)
    IN /\ relations' = DeleteRows(relations, {row})
       /\ last' = Call("remove_relation", issue_id_1, issue_id_2,
                       Bool(row \in Rows(relations)))
       /\ UNCHANGED <<issue_vars, dependencies, milestone_issues, other_vars, now>>

\* ---------------------------------------------------------------- commands/create.rs
VALID_PRIORITIES == {"low", "medium", "high", "critical"}

\* TEMPLATES: name -> priority and label; the description_prefix of a template
\* is written as the name of the template
TEMPLATES ==
    [name \in {"bug", "feature", "refactor", "research"} |->
        [priority |-> CASE name = "bug" -> "high"
                        [] name = "feature" -> "medium"
                        [] OTHER -> "low",
         label |-> name]]

\* TEMPLATES.iter().find(|t| t.name == name): is there one
get_template(name) == name \in DOMAIN TEMPLATES

\* a validation that accepts every priority
validate_priority_any(priority) == TRUE

\* VALID_PRIORITIES.contains(&priority)
validate_priority(priority) == priority \in VALID_PRIORITIES

\* "Template priority is default, user can override": medium counts as not given
final_priority(priority, template) ==
    IF template # NoText /\ priority = "medium" THEN TEMPLATES[template].priority
    ELSE priority

\* the template's prefix, then the user's description when there is one
final_description(description, template) ==
    IF template = NoText THEN description
    ELSE IF description = NoText THEN <<template>>
    ELSE <<template, description>>

\* run: template, then validate_priority, then create_issue, then add_label
run(title, description, priority, template) ==
    IF template # NoText /\ ~get_template(template)
    THEN /\ last' = Call("run", 0, <<priority, template>>, "unknown_template")
         /\ UNCHANGED <<issue_vars, edge_vars, other_vars, now>>
    ELSE IF ~validate_priority(final_priority(priority, template))
    THEN /\ last' = Call("run", 0, <<priority, template>>, "invalid_priority")
         /\ UNCHANGED <<issue_vars, edge_vars, other_vars, now>>
    ELSE LET id == next_rowid(issues, seq)
         IN /\ seq < MaxId
            /\ issues' = [i \in DOMAIN issues \cup {id} |->
                              IF i = id
                              THEN IssueRow(title, final_description(description, template),
                                            final_priority(priority, template), NULL, now)
                              ELSE issues[i]]
            /\ seq' = IF id > seq THEN id ELSE seq
            /\ labels' = IF template # NoText
                          THEN InsertOrIgnore(labels, Label(id, TEMPLATES[template].label))
                          ELSE labels
            /\ last' = Call("run", id, <<priority, template>>, "ok")
            /\ UNCHANGED <<edge_vars, milestones, mseq, sessions, pc, now>>

\* run_subissue: validate_priority, then the parent lookup, then create_subissue
run_subissue(parent_id, title, description, priority) ==
    IF ~validate_priority(priority)
    THEN /\ last' = Call("run_subissue", 0, <<priority, parent_id>>, "invalid_priority")
         /\ UNCHANGED <<issue_vars, edge_vars, other_vars, now>>
    ELSE IF ~get_issue(parent_id)
    THEN /\ last' = Call("run_subissue", 0, <<priority, parent_id>>, "not_found")
         /\ UNCHANGED <<issue_vars, edge_vars, other_vars, now>>
    ELSE LET id == next_rowid(issues, seq)
         IN /\ seq < MaxId
            /\ issues' = [i \in DOMAIN issues \cup {id} |->
                              IF i = id
                              THEN IssueRow(title, description, priority, parent_id, now)
                              ELSE issues[i]]
            /\ seq' = IF id > seq THEN id ELSE seq
            /\ last' = Call("run_subissue", id, <<priority, parent_id>>, "ok")
            /\ UNCHANGED <<edge_vars, other_vars, now>>

\* ---------------------------------------------------------------- commands/relate.rs
\* add: bails when either issue is not found, then calls add_relation, whose
\* own errors (the self check) it passes on
relate_add(issue_id, related_id) ==
    IF ~get_issue(issue_id) \/ ~get_issue(related_id)
    THEN /\ last' = Call("relate_add", issue_id, related_id, "not_found")
         /\ UNCHANGED <<issue_vars, edge_vars, other_vars, now>>
    ELSE LET row == canonical_pair(issue_id, related_id)
         IN IF is_self_relation(issue_id, related_id)
               \/ ~fk_issue(issues, issue_id) \/ ~fk_issue(issues, related_id)
            THEN /\ last' = Call("relate_add", issue_id, related_id, "err")
                 /\ UNCHANGED <<issue_vars, edge_vars, other_vars, now>>
            ELSE /\ EdgeRows < MaxEdges \/ row \in Rows(relations)
                 /\ relations' = InsertOrIgnore(relations, row)
                 /\ last' = Call("relate_add", issue_id, related_id, "ok")
                 /\ UNCHANGED <<issue_vars, dependencies, milestone_issues, other_vars, now>>

\* ---------------------------------------------------------------- milestones
create_milestone ==
    /\ mseq < MaxMilestones
    /\ milestones' = [m \in DOMAIN milestones \cup {mseq + 1} |->
                         IF m = mseq + 1
                         THEN [status |-> "open", created_at |-> now, closed_at |-> NULL]
                         ELSE milestones[m]]
    /\ mseq' = mseq + 1
    /\ last' = Call("create_milestone", mseq + 1, 0, "ok")
    /\ UNCHANGED <<issue_vars, edge_vars, sessions, labels, pc, now>>

\* INSERT OR IGNORE INTO milestone_issues; both columns are foreign keys
add_issue_to_milestone(milestone_id, issue_id) ==
    LET row == Member(milestone_id, issue_id)
    IN IF milestone_id \notin DOMAIN milestones \/ ~fk_issue(issues, issue_id)
       THEN /\ last' = Call("add_issue_to_milestone", milestone_id, issue_id, "err")
            /\ UNCHANGED milestone_issues
            /\ UNCHANGED <<issue_vars, dependencies, relations, other_vars, now>>
       ELSE /\ EdgeRows < MaxEdges \/ row \in Rows(milestone_issues)
            /\ milestone_issues' = InsertOrIgnore(milestone_issues, row)
            /\ last' = Call("add_issue_to_milestone", milestone_id, issue_id,
                            Bool(row \notin Rows(milestone_issues)))
            /\ UNCHANGED <<issue_vars, dependencies, relations, other_vars, now>>

remove_issue_from_milestone(milestone_id, issue_id) ==
    LET row == Member(milestone_id, issue_id)
    IN /\ milestone_issues' = DeleteRows(milestone_issues, {row})
       /\ last' = Call("remove_issue_from_milestone", milestone_id, issue_id,
                       Bool(row \in Rows(milestone_issues)))
       /\ UNCHANGED <<issue_vars, dependencies, relations, other_vars, now>>

\* a loop that stops at the first id that is not an issue
RECURSIVE add_loop_abort(_, _, _)
add_loop_abort(mi, milestone_id, issue_ids) ==
    IF issue_ids = <<>> \/ ~get_issue(Head(issue_ids))
    THEN mi
    ELSE add_loop_abort(InsertOrIgnore(mi, Member(milestone_id, Head(issue_ids))),
                        milestone_id, Tail(issue_ids))

\* commands/milestone.rs add, the for loop: an id that is not an issue is
\* skipped with a warning, every other id goes to add_issue_to_milestone,
\* whose INSERT OR IGNORE adds the row or reports it already there
RECURSIVE add_loop(_, _, _)
add_loop(mi, milestone_id, issue_ids) ==
    IF issue_ids = <<>>
    THEN mi
    ELSE LET issue_id == Head(issue_ids)
         IN add_loop(IF ~get_issue(issue_id)
                     THEN mi
                     ELSE InsertOrIgnore(mi, Member(milestone_id, issue_id)),
                     milestone_id, Tail(issue_ids))

\* commands/milestone.rs add: bails when the milestone is not found, else
\* runs the loop over the ids and returns Ok
add(milestone_id, issue_ids) ==
    IF milestone_id \notin DOMAIN milestones
    THEN /\ last' = Call("add", milestone_id, issue_ids, "not_found")
         /\ UNCHANGED <<issue_vars, edge_vars, other_vars, now>>
    ELSE /\ milestone_issues' = add_loop(milestone_issues, milestone_id, issue_ids)
         /\ last' = Call("add", milestone_id, issue_ids, "ok")
         /\ UNCHANGED <<issue_vars, dependencies, relations, other_vars, now>>

\* commands/milestone.rs show: bails when the milestone is not found, else
\* prints the progress of its members; it writes nothing
show(id) ==
    /\ last' = IF id \notin DOMAIN milestones
               THEN Call("show", id, 0, "not_found")
               ELSE Call("show", id, progress(issues, milestone_issues, id), "ok")
    /\ UNCHANGED <<issue_vars, edge_vars, other_vars, now>>

\* ---------------------------------------------------------------- sessions
\* INSERT INTO sessions (started_at) VALUES (?1); sessions are never deleted
start_session ==
    /\ Cardinality(DOMAIN sessions) < MaxSessions
    /\ sessions' = [s \in DOMAIN sessions \cup {Cardinality(DOMAIN sessions) + 1} |->
                       IF s \in DOMAIN sessions
                       THEN sessions[s]
                       ELSE [active_issue_id |-> NULL]]
    /\ last' = Call("start_session", Cardinality(DOMAIN sessions) + 1, 0, "ok")
    /\ UNCHANGED <<issue_vars, edge_vars, milestones, mseq, labels, pc, now>>

\* UPDATE sessions SET active_issue_id = ?1 WHERE id = ?2; the new value is a foreign key
set_session_issue(session_id, issue_id) ==
    IF session_id \in DOMAIN sessions /\ ~fk_issue(issues, issue_id)
    THEN /\ last' = Call("set_session_issue", session_id, issue_id, "err")
         /\ UNCHANGED <<issue_vars, edge_vars, other_vars, now>>
    ELSE /\ sessions' = [s \in DOMAIN sessions |->
                            IF s = session_id
                            THEN [sessions[s] EXCEPT !.active_issue_id = issue_id]
                            ELSE sessions[s]]
         /\ last' = Call("set_session_issue", session_id, issue_id,
                         Bool(session_id \in DOMAIN sessions))
         /\ UNCHANGED <<issue_vars, edge_vars, milestones, mseq, labels, pc, now>>

\* the clock advances between calls
Tick ==
    /\ now < MaxTime
    /\ now' = now + 1
    /\ last' = Call("tick", 0, 0, "ok")
    /\ UNCHANGED <<issue_vars, edge_vars, other_vars>>

\* ---------------------------------------------------------------- specifications
\* the issue lifecycle and the dependency graph
Next ==
    \/ create_issue("t", NoText, "medium")
    \/ \E id \in IdArgs : close_issue(id)
    \/ \E id \in IdArgs : reopen_issue(id)
    \/ \E id \in IdArgs : delete_issue(id)
    \/ \E id \in IdArgs : archive_issue(id)
    \/ \E id \in IdArgs : unarchive_issue(id)
    \/ \E id \in IdArgs : archive(id)
    \/ \E id \in IdArgs : unarchive(id)
    \/ \E days \in {-1, 0} : archive_older_than(days)
    \/ \E a, b \in IdArgs : add_dependency(a, b)
    \/ \E a, b \in IdArgs : remove_dependency(a, b)

Spec == Init /\ [][Next]_vars

\* the edge tables and the cascade of a delete, with every issue left open
NextEdges ==
    \/ create_issue("t", NoText, "medium")
    \/ \E p \in IdArgs : create_subissue(p, "t", NoText, "medium")
    \/ \E id \in IdArgs : delete_issue(id)
    \/ \E a, b \in IdArgs : add_dependency(a, b)
    \/ \E a, b \in IdArgs : remove_dependency(a, b)
    \/ \E a, b \in IdArgs : add_relation(a, b)
    \/ \E a, b \in IdArgs : remove_relation(a, b)
    \/ create_milestone
    \/ \E m \in MilestoneArgs, i \in IdArgs : add_issue_to_milestone(m, i)
    \/ \E m \in MilestoneArgs, i \in IdArgs : remove_issue_from_milestone(m, i)

SpecEdges == Init /\ [][NextEdges]_vars

\* ---------------------------------------------------------------- bounds of the timed runs
MaxTimedIssues == 2  \* issues created while the clock runs

\* the issue lifecycle with a running clock
NextTime ==
    \/ seq < MaxTimedIssues /\ create_issue("t", NoText, "medium")
    \/ \E id \in IdArgs : close_issue(id)
    \/ \E id \in IdArgs : reopen_issue(id)
    \/ \E id \in IdArgs : delete_issue(id)
    \/ \E id \in IdArgs : archive_issue(id)
    \/ \E id \in IdArgs : unarchive_issue(id)
    \/ \E id \in IdArgs, title \in {NoText, "t2"} : update_issue(id, title, NoText, NoText)
    \/ \E days \in {-1, 0, 1} : archive_older_than(days)
    \/ \E a, b \in IdArgs : add_dependency(a, b)
    \/ Tick

SpecTime == Init /\ [][NextTime]_vars

\* issues, sub-issues and the sessions that point at them
NextSessions ==
    \/ create_issue("t", NoText, "medium")
    \/ \E p \in IdArgs : create_subissue(p, "t", NoText, "medium")
    \/ \E id \in IdArgs : delete_issue(id)
    \/ start_session
    \/ \E s \in SessionArgs, i \in IdArgs : set_session_issue(s, i)

SpecSessions == Init /\ [][NextSessions]_vars

\* edits of the fields of issues with a running clock
NextUpdate ==
    \/ seq < MaxTimedIssues /\ create_issue("t", NoText, "medium")
    \/ \E id \in IdArgs, title \in {NoText, "t2"}, description \in {NoText, "d2"},
          priority \in {NoText, "high"} : update_issue(id, title, description, priority)
    \/ \E id \in IdArgs : close_issue(id)
    \/ add_dependency(2, 1)
    \/ Tick

SpecUpdate == Init /\ [][NextUpdate]_vars

\* the parent tree: sub-issues, re-parenting and deletion
NextParent ==
    \/ create_issue("t", NoText, "medium")
    \/ \E p \in IdArgs : create_subissue(p, "t", NoText, "medium")
    \/ \E id \in IdArgs, p \in IdArgs \cup {NULL} : update_parent(id, p)
    \/ \E id \in IdArgs : delete_issue(id)

SpecParent == Init /\ [][NextParent]_vars

\* every statement that writes updated_at, with a running clock
NextStamp ==
    \/ seq < MaxTimedIssues /\ create_issue("t", NoText, "medium")
    \/ \E id \in IdArgs : update_issue(id, NoText, NoText, "high")
    \/ \E id \in IdArgs : close_issue(id)
    \/ \E id \in IdArgs : reopen_issue(id)
    \/ \E id \in IdArgs : archive_issue(id)
    \/ \E id \in IdArgs : unarchive_issue(id)
    \/ \E days \in {-1, 0, 1} : archive_older_than(days)
    \/ \E id \in IdArgs, p \in IdArgs \cup {NULL} : update_parent(id, p)
    \/ Tick

SpecStamp == Init /\ [][NextStamp]_vars

\* the relate command over issues that come and go
NextRelate ==
    \/ create_issue("t", NoText, "medium")
    \/ \E id \in IdArgs : delete_issue(id)
    \/ \E a, b \in IdArgs : relate_add(a, b)
    \/ \E a, b \in IdArgs : remove_relation(a, b)

SpecRelate == Init /\ [][NextRelate]_vars

\* milestones whose members are closed, archived, reopened and deleted
NextMilestone ==
    \/ create_issue("t", NoText, "medium")
    \/ \E id \in IdArgs : close_issue(id)
    \/ \E id \in IdArgs : reopen_issue(id)
    \/ \E id \in IdArgs : archive_issue(id)
    \/ \E id \in IdArgs : delete_issue(id)
    \/ create_milestone
    \/ \E m \in MilestoneArgs, i \in IdArgs : add_issue_to_milestone(m, i)
    \/ \E m \in MilestoneArgs, i \in IdArgs : remove_issue_from_milestone(m, i)
    \/ \E m \in MilestoneArgs : show(m)

SpecMilestone == Init /\ [][NextMilestone]_vars

\* the milestone add command over lists of ids, some of them not issues
NextAdd ==
    \/ create_issue("t", NoText, "medium")
    \/ \E id \in IdArgs : close_issue(id)
    \/ \E id \in IdArgs : delete_issue(id)
    \/ create_milestone
    \/ \E m \in MilestoneArgs, ids \in IdLists : add(m, ids)
    \/ \E m \in MilestoneArgs, i \in IdArgs : remove_issue_from_milestone(m, i)

SpecAdd == Init /\ [][NextAdd]_vars

\* the create commands, with deletions in between
NextCreate ==
    \/ \E priority \in {"medium", "low", "urgent"}, template \in {NoText, "bug", "nonesuch"} :
          run("t", NoText, priority, template)
    \/ \E p \in IdArgs, priority \in {"medium", "urgent"} :
          run_subissue(p, "t", NoText, priority)
    \/ \E id \in IdArgs : delete_issue(id)

SpecCreate == Init /\ [][NextCreate]_vars

\* the queries between changes of status, of edges and of other fields
NextQueries ==
    \/ seq < MaxTimedIssues /\ create_issue("t", NoText, "medium")
    \/ \E id \in IdArgs : close_issue(id)
    \/ \E id \in IdArgs : reopen_issue(id)
    \/ \E id \in IdArgs : update_issue(id, "t2", NoText, NoText)
    \/ \E a, b \in IdArgs : add_dependency(a, b)
    \/ \E a, b \in IdArgs : remove_dependency(a, b)
    \/ query_list_ready_issues
    \/ query_list_blocked_issues
    \/ \E i \in IdArgs : query_get_blockers(i)
    \/ \E i \in IdArgs : query_get_blocking(i)
    \/ Tick

SpecQueries == Init /\ [][NextQueries]_vars

\* an archive command of one process among the statements of another
NextRace ==
    \/ seq < MaxTimedIssues /\ create_issue("t", NoText, "medium")
    \/ \E id \in IdArgs : close_issue(id)
    \/ \E id \in IdArgs : reopen_issue(id)
    \/ \E id \in IdArgs : delete_issue(id)
    \/ \E id \in IdArgs : unarchive_issue(id)
    \/ \E id \in IdArgs : archive_check(id)
    \/ archive_update

SpecRace == Init /\ [][NextRace]_vars

\* ================================================================ properties
Ready == Range(list_ready_issues(issues, dependencies))
Blocked == Range(list_blocked_issues(issues, dependencies))
ReadyAfter == Range(list_ready_issues(issues', dependencies'))
BlockedAfter == Range(list_blocked_issues(issues', dependencies'))

\* the stored issues with status open that have an edge a -> i
OpenBlockers(i) ==
    {a \in DOMAIN issues : issues[a].status = "open" /\ Dep(a, i) \in Rows(dependencies)}

AllBlockers(i) == {d.blocker_id : d \in {e \in Rows(dependencies) : e.blocked_id = i}}

\* C1: every open issue with no open direct blocker is in list_ready_issues();
\* every open issue with an open direct blocker is in list_blocked_issues()
\* and not in list_ready_issues().
C1_ReadyOrBlocked ==
    \A i \in DOMAIN issues :
        issues[i].status = "open" =>
            /\ OpenBlockers(i) = {} => i \in Ready
            /\ OpenBlockers(i) # {} => i \in Blocked /\ i \notin Ready

\* an open issue with an open blocker beside an open issue whose blockers are all closed
C1_Witness ==
    \E i, j \in DOMAIN issues :
        /\ issues[i].status = "open" /\ OpenBlockers(i) # {}
        /\ issues[j].status = "open" /\ OpenBlockers(j) = {} /\ AllBlockers(j) # {}

\* the step is a call of close_issue(A) that returned true
ClosedNow(A) == last' = Call("close_issue", A, 0, "true")

\* C2 as stated: for every open issue B whose only open direct blocker is A,
\* B is blocked and not ready before close_issue(A), and ready and not blocked
\* right after close_issue(A) returned true.
C2_Original ==
    [][\A A, B \in IdArgs :
          (/\ B \in DOMAIN issues /\ issues[B].status = "open"
           /\ OpenBlockers(B) = {A}
           /\ ClosedNow(A))
          => /\ B \in Blocked /\ B \notin Ready
             /\ B \in ReadyAfter /\ B \notin BlockedAfter]_vars

\* C2, amended: the same for every open issue B whose only open direct blocker
\* is another issue A (A # B).
C2_CloseOnlyBlocker ==
    [][\A A, B \in IdArgs :
          (/\ A # B
           /\ B \in DOMAIN issues /\ issues[B].status = "open"
           /\ OpenBlockers(B) = {A}
           /\ ClosedNow(A))
          => /\ B \in Blocked /\ B \notin Ready
             /\ B \in ReadyAfter /\ B \notin BlockedAfter]_vars

\* close_issue(A) has just returned true and an issue A blocks, with no other
\* open blocker, is open
C2_Witness ==
    /\ last.op = "close_issue" /\ last.ret = "true"
    /\ \E B \in DOMAIN issues :
          /\ B # last.a
          /\ issues[B].status = "open"
          /\ Dep(last.a, B) \in Rows(dependencies)
          /\ OpenBlockers(B) = {}
          /\ B \in Ready

\* issues #1, #2, #3 with the edges 1 -> 2, 1 -> 3, 2 -> 3
Scenario3 ==
    /\ DOMAIN issues = {1, 2, 3}
    /\ Rows(dependencies) = {Dep(1, 2), Dep(1, 3), Dep(2, 3)}

\* C3: with #1, #2, #3 open and the edges 1 -> 2, 1 -> 3, 2 -> 3 the ready list
\* is [#1] and the blocked list [#2, #3]; after close_issue(1) the ready list is
\* [#2] and the blocked list [#3].
C3_OneHop ==
    [][(Scenario3 /\ \A i \in {1, 2, 3} : issues[i].status = "open")
       => /\ list_ready_issues(issues, dependencies) = <<1>>
          /\ list_blocked_issues(issues, dependencies) = <<2, 3>>
          /\ ClosedNow(1)
             => /\ list_ready_issues(issues', dependencies') = <<2>>
                /\ list_blocked_issues(issues', dependencies') = <<3>>]_vars

\* the scenario right after close_issue(1)
C3_Witness ==
    /\ Scenario3
    /\ last = Call("close_issue", 1, 0, "true")
    /\ issues[1].status = "closed"
    /\ issues[2].status = "open" /\ issues[3].status = "open"

\* C4: every dependency edge and every relation edge has both endpoints among
\* the stored issues, whatever calls were made (also add_dependency and
\* add_relation with an id that is no stored issue).
C4_NoDanglingEdge ==
    /\ \A d \in Rows(dependencies) :
          d.blocker_id \in DOMAIN issues /\ d.blocked_id \in DOMAIN issues
    /\ \A r \in Rows(relations) :
          r.issue_id_1 \in DOMAIN issues /\ r.issue_id_2 \in DOMAIN issues

\* add_dependency was just called with a deleted issue as blocker, while edges are stored
C4_Witness ==
    /\ last.op = "add_dependency" /\ last.ret = "err"
    /\ last.b \notin DOMAIN issues /\ last.b <= seq
    /\ last.a \in DOMAIN issues
    /\ Rows(dependencies) # {}
    /\ Rows(relations) # {}

\* the issues a step removed
Gone == DOMAIN issues \ DOMAIN issues'

\* C5: after delete_issue(X) returned true no dependency edge, relation edge or
\* milestone membership involves X, and the rows that involve no deleted issue
\* are as before.
C5_DeleteCascade ==
    [][(last'.op = "delete_issue" /\ last'.ret = "true")
       => LET X == last'.a
          IN /\ X \in Gone
             /\ \A d \in Rows(dependencies') : d.blocker_id # X /\ d.blocked_id # X
             /\ \A r \in Rows(relations') : r.issue_id_1 # X /\ r.issue_id_2 # X
             /\ \A m \in Rows(milestone_issues') : m.issue_id # X
             /\ \A d \in Rows(dependencies) :
                   (d.blocker_id \notin Gone /\ d.blocked_id \notin Gone)
                   => d \in Rows(dependencies') /\ dependencies'[d] = dependencies[d]
             /\ \A r \in Rows(relations) :
                   (r.issue_id_1 \notin Gone /\ r.issue_id_2 \notin Gone)
                   => r \in Rows(relations') /\ relations'[r] = relations[r]
             /\ \A m \in Rows(milestone_issues) :
                   m.issue_id \notin Gone
                   => m \in Rows(milestone_issues') /\ milestone_issues'[m] = milestone_issues[m]
             /\ Rows(dependencies') \subseteq Rows(dependencies)
             /\ Rows(relations') \subseteq Rows(relations)
             /\ Rows(milestone_issues') \subseteq Rows(milestone_issues)]_vars

\* a delete whose cascade removed two edge rows and left a relation between
\* two other issues
C5_Witness ==
    /\ last.op = "delete_issue" /\ last.ret = "true"
    /\ last.b = 2
    /\ NumRows(relations) = 1

\* C6: no step takes an issue from archived to open: an issue that is archived
\* before a step is archived, closed or deleted after it.
C6_NeverArchivedToOpen ==
    [][\A i \in DOMAIN issues :
          issues[i].status = "archived"
          => i \notin DOMAIN issues' \/ issues'[i].status \in {"archived", "closed"}]_vars

\* C7: archive_issue and the archive command on an open issue fail and leave it
\* open; archive_issue on a closed issue makes it archived; unarchive_issue on
\* an archived issue makes it closed, and on any other issue returns false and
\* changes nothing.
C7_ArchiveOnlyFromClosed ==
    [][\A id \in DOMAIN issues :
          /\ (last'.op = "archive_issue" /\ last'.a = id /\ issues[id].status = "open")
             => last'.ret = "false" /\ issues' = issues
          /\ (last'.op = "archive" /\ last'.a = id /\ issues[id].status = "open")
             => last'.ret = "err" /\ issues' = issues
          /\ (last'.op = "archive_issue" /\ last'.a = id /\ issues[id].status = "closed")
             => last'.ret = "true" /\ issues'[id].status = "archived"
          /\ (last'.op = "unarchive_issue" /\ last'.a = id /\ issues[id].status = "archived")
             => last'.ret = "true" /\ issues'[id].status = "closed"
          /\ (last'.op = "unarchive_issue" /\ last'.a = id /\ issues[id].status # "archived")
             => last'.ret = "false" /\ issues' = issues]_vars

\* archive_issue has just refused an open issue while another issue is archived
C7_Witness ==
    /\ last.op = "archive_issue" /\ last.ret = "false"
    /\ last.a \in DOMAIN issues /\ issues[last.a].status = "open"
    /\ \E j \in DOMAIN issues : issues[j].status = "archived"

\* C8: for stored issues a and b, add_dependency(b, a) returns true when the
\* edge a -> b is not stored and false, changing nothing, when it is; either
\* way get_blockers(b) then holds a exactly once.
C8_AddDependencyIdempotent ==
    [][(last'.op = "add_dependency"
        /\ last'.a \in DOMAIN issues /\ last'.b \in DOMAIN issues)
       => LET b == last'.a
              a == last'.b
          IN /\ Dep(a, b) \notin Rows(dependencies) => last'.ret = "true"
             /\ Dep(a, b) \in Rows(dependencies)
                => /\ last'.ret = "false"
                   /\ dependencies' = dependencies
                   /\ issues' = issues
             /\ Count(get_blockers(dependencies', b), a) = 1]_vars

\* the second add_dependency(b, a), a # b, has just returned false
C8_Witness ==
    /\ last.op = "add_dependency" /\ last.ret = "false"
    /\ last.a # last.b
    /\ Count(get_blockers(dependencies, last.a), last.b) = 1

\* C9: add_relation(x, x) fails for every x, stored or not, and changes no table.
C9_SelfRelationRejected ==
    [][(last'.op = "add_relation" /\ last'.a = last'.b)
       => /\ last'.ret = "err"
          /\ UNCHANGED <<issues, seq, dependencies, relations, milestones, mseq,
                         milestone_issues, sessions>>]_vars

\* add_relation(x, x) has just failed for a stored issue x
C9_Witness ==
    /\ last.op = "add_relation" /\ last.a = last.b /\ last.ret = "err"
    /\ last.a \in DOMAIN issues
    /\ Rows(relations) # {}

\* the stored rows that relate a and b, in either order
PairRows(rels, a, b) ==
    {r \in Rows(rels) : {r.issue_id_1, r.issue_id_2} = {a, b}}

\* C10: for distinct stored issues a and b, add_relation(a, b) and
\* add_relation(b, a) leave the same relation set: the rows before plus one row
\* for the pair; the call returns true when the pair was not related and false
\* when it was (in either order); afterwards each is among the other's related issues.
C10_RelationSymmetric ==
    [][(last'.op = "add_relation" /\ last'.a # last'.b
        /\ last'.a \in DOMAIN issues /\ last'.b \in DOMAIN issues)
       => LET a == last'.a
              b == last'.b
              lo == IF a < b THEN a ELSE b
              hi == IF a < b THEN b ELSE a
          IN /\ Rows(relations') = Rows(relations) \cup {Rel(lo, hi)}
             /\ \A r \in Rows(relations) : relations'[r] = relations[r]
             /\ PairRows(relations', a, b) = {Rel(lo, hi)}
             /\ relations'[Rel(lo, hi)] = 1
             /\ last'.ret = Bool(PairRows(relations, a, b) = {})
             /\ b \in Range(get_related_issues(issues', relations', a))
             /\ a \in Range(get_related_issues(issues', relations', b))]_vars

\* add_relation(a, b) with a > b has just returned false: the pair was related before
C10_Witness ==
    /\ last.op = "add_relation" /\ last.ret = "false"
    /\ last.a > last.b
    /\ get_related_issues(issues, relations, last.b) = <<last.a>>

\* C11: in every reachable state an issue has a closed_at timestamp if and only
\* if its status is closed or archived.
C11_ClosedAtIffClosed ==
    \A i \in DOMAIN issues :
        issues[i].closed_at # NULL <=> issues[i].status \in {"closed", "archived"}

\* reopen_issue has just cleared the closed_at of an issue closed earlier, while
\* an archived issue keeps the closed_at of the clock tick before
C11_Witness ==
    /\ last.op = "reopen_issue" /\ last.ret = "true"
    /\ issues[last.a].status = "open" /\ issues[last.a].closed_at = NULL
    /\ issues[last.a].updated_at > issues[last.a].created_at
    /\ \E j \in DOMAIN issues :
          /\ issues[j].status = "archived"
          /\ issues[j].closed_at # NULL /\ issues[j].closed_at < now

\* the calls that address one issue by id and answer with a boolean
ById == {"update_issue", "close_issue", "reopen_issue", "delete_issue",
         "archive_issue", "unarchive_issue"}

\* C12: for every id that is not a stored issue, update_issue, close_issue,
\* reopen_issue, delete_issue, archive_issue and unarchive_issue return false,
\* not an error; get_issue finds nothing before and after, and every table is
\* as it was.
C12_AbsentIdIsFalse ==
    [][(last'.op \in ById /\ ~get_issue(last'.a))
       => /\ last'.ret = "false"
          /\ last'.a \notin DOMAIN issues'
          /\ UNCHANGED <<issue_vars, edge_vars, other_vars>>]_vars

\* update_issue has just returned false for the id of a deleted issue while
\* another issue is stored
C12_Witness ==
    /\ last.op = "update_issue" /\ last.ret = "false"
    /\ last.a <= seq /\ ~get_issue(last.a)
    /\ DOMAIN issues # {}

\* C13: for every stored issue, in every reachable state (a session may name
\* the issue as its active issue), delete_issue(id) returns true and get_issue(id)
\* finds nothing afterwards.
C13_DeleteAlwaysSucceeds ==
    [][(last'.op = "delete_issue" /\ get_issue(last'.a))
       => /\ last'.ret = "true"
          /\ last'.a \notin DOMAIN issues']_vars

\* C15: close_issue(id) on a stored issue returns true whatever its status and
\* leaves it closed with closed_at the time of the call; a second call right
\* after leaves the same status; no other issue and no edge table changes.
C15_CloseRestamps ==
    [][(last'.op = "close_issue" /\ get_issue(last'.a))
       => LET id == last'.a
          IN /\ last'.ret = "true"
             /\ DOMAIN issues' = DOMAIN issues
             /\ issues'[id].status = "closed"
             /\ issues'[id].closed_at = now
             /\ close_issue_rows(issues', id, now')[id].status = issues'[id].status
             /\ \A j \in DOMAIN issues \ {id} : issues'[j] = issues[j]
             /\ UNCHANGED edge_vars]_vars

\* close_issue has just stamped an issue with the present time, later than its
\* last change but one, beside a closed issue that keeps an earlier closed_at
\* and a dependency edge between the two
C15_Witness ==
    /\ last.op = "close_issue" /\ last.ret = "true"
    /\ issues[last.a].status = "closed"
    /\ issues[last.a].closed_at = now /\ issues[last.a].created_at < now
    /\ \E j \in DOMAIN issues \ {last.a} :
          /\ issues[j].status = "closed" /\ issues[j].closed_at < now
          /\ Dep(j, last.a) \in Rows(dependencies)

RECURSIVE AncestorsWithin(_, _, _)
\* the issues on the parent_id chain of i, at most n links up
AncestorsWithin(iss, i, n) ==
    IF n = 0 \/ i \notin DOMAIN iss \/ iss[i].parent_id = NULL
    THEN {}
    ELSE {iss[i].parent_id} \cup AncestorsWithin(iss, iss[i].parent_id, n - 1)

\* children, grandchildren, ... of X in the present state
Descendants(X) == {d \in DOMAIN issues : X \in AncestorsWithin(issues, d, MaxId)}

\* C14: delete_issue(X) that returned true deletes X and every descendant of X
\* (through parent_id) and no other issue; no dependency, relation or
\* milestone-membership row that touches a deleted issue is left; the issues
\* that remain are as they were.
C14_DeleteDescendants ==
    [][(last'.op = "delete_issue" /\ last'.ret = "true")
       => LET X == last'.a
          IN /\ Gone = {X} \cup Descendants(X)
             /\ DOMAIN issues' = DOMAIN issues \ Gone
             /\ \A j \in DOMAIN issues' : issues'[j] = issues[j]
             /\ \A d \in Rows(dependencies') :
                   d.blocker_id \notin Gone /\ d.blocked_id \notin Gone
             /\ \A r \in Rows(relations') :
                   r.issue_id_1 \notin Gone /\ r.issue_id_2 \notin Gone
             /\ \A m \in Rows(milestone_issues') : m.issue_id \notin Gone]_vars

\* delete_issue(1) has just removed the last of three issues in one call together
\* with three edge rows: an issue alone carries at most two (its self-dependency
\* and its milestone membership), so a descendant and its edge went with it
C14_Witness ==
    /\ last.op = "delete_issue" /\ last.ret = "true"
    /\ last.a = 1 /\ last.b = 3
    /\ seq = 3 /\ DOMAIN issues = {}

\* C16: remove_dependency(blocked, blocker) returns true exactly when the edge
\* blocker -> blocked was stored; afterwards that edge is absent; every other
\* dependency edge, the reverse edge among them, and every issue is unchanged.
C16_RemoveDependencyFrame ==
    [][last'.op = "remove_dependency"
       => LET row == Dep(last'.b, last'.a)
          IN /\ last'.ret = Bool(row \in Rows(dependencies))
             /\ Rows(dependencies') = Rows(dependencies) \ {row}
             /\ \A r \in Rows(dependencies') : dependencies'[r] = dependencies[r]
             /\ UNCHANGED <<issue_vars, relations, milestone_issues>>]_vars

\* remove_dependency(blocked, blocker) has just returned true and the reverse
\* edge blocked -> blocker is still stored
C16_Witness ==
    /\ last.op = "remove_dependency" /\ last.ret = "true"
    /\ last.a # last.b
    /\ Dep(last.b, last.a) \notin Rows(dependencies)
    /\ Dep(last.a, last.b) \in Rows(dependencies)

\* C17: get_blockers(i) lists exactly the ids a with a stored edge a -> i and
\* get_blocking(i) exactly the ids b with a stored edge i -> b, each once and
\* whatever the status of the issues; a is in get_blockers(b) if and only if
\* b is in get_blocking(a).
C17_BlockersBlocking ==
    /\ \A i \in IdArgs :
          /\ Range(get_blockers(dependencies, i))
                = {a \in IdArgs : Dep(a, i) \in Rows(dependencies)}
          /\ Range(get_blocking(dependencies, i))
                = {b \in IdArgs : Dep(i, b) \in Rows(dependencies)}
          /\ \A a \in IdArgs :
                /\ Count(get_blockers(dependencies, i), a) <= 1
                /\ Count(get_blocking(dependencies, i), a) <= 1
    /\ \A a, b \in IdArgs :
          a \in Range(get_blockers(dependencies, b))
              <=> b \in Range(get_blocking(dependencies, a))

\* a closed issue a blocks an archived issue b, not the other way round, and
\* the two queries show the edge from both ends
C17_Witness ==
    \E a, b \in DOMAIN issues :
        /\ a # b
        /\ issues[a].status = "closed" /\ issues[b].status = "archived"
        /\ get_blockers(dependencies, b) = <<a>>
        /\ b \in Range(get_blocking(dependencies, a))
        /\ get_blockers(dependencies, a) = <<>>

\* the ids of list s are in strictly ascending order
Ascending(s) == \A k \in 1..(Len(s) - 1) : s[k] < s[k + 1]

\* C18: list_blocked_issues() holds exactly the open issues with an open direct
\* blocker and list_ready_issues() exactly the open issues without one, each
\* once and in strictly ascending id order, however many open blockers an issue
\* has; closed and archived issues are in neither list.
C18_ListsDistinctAscending ==
    LET blocked == list_blocked_issues(issues, dependencies)
        ready == list_ready_issues(issues, dependencies)
    IN /\ Ascending(blocked) /\ Ascending(ready)
       /\ Range(blocked)
             = {i \in DOMAIN issues : issues[i].status = "open" /\ OpenBlockers(i) # {}}
       /\ Range(ready)
             = {i \in DOMAIN issues : issues[i].status = "open" /\ OpenBlockers(i) = {}}
       /\ \A i \in DOMAIN issues :
             issues[i].status \in {"closed", "archived"}
                 => i \notin Range(blocked) /\ i \notin Range(ready)

\* an open issue with two open blockers and an archived one is listed once as
\* blocked; the archived issue, itself blocked by an open issue, is in no list
C18_Witness ==
    \E i, j \in DOMAIN issues :
        /\ issues[i].status = "open" /\ Cardinality(OpenBlockers(i)) = 2
        /\ issues[j].status = "archived"
        /\ Dep(j, i) \in Rows(dependencies)
        /\ list_blocked_issues(issues, dependencies) = <<i>>
        /\ Len(list_ready_issues(issues, dependencies)) = 1

\* C19: every create_issue / create_subissue that succeeds returns an id larger
\* than every id given before (seq, which no step lowers), deleted ids included,
\* and adds exactly that id; every id stored is one given before; an issue that
\* stays stored keeps its id: the row under it is the row created under it.
C19_IdsIncrease ==
    [][/\ seq' >= seq
       /\ \A i \in DOMAIN issues' : i <= seq'
       /\ (last'.op = "create_issue" /\ last'.ret = "ok")
             => /\ last'.a > seq
                /\ last'.a \notin DOMAIN issues
                /\ DOMAIN issues' = DOMAIN issues \cup {last'.a}
       /\ ~(last'.op = "create_issue" /\ last'.ret = "ok")
             => DOMAIN issues' \subseteq DOMAIN issues
       /\ \A i \in DOMAIN issues \cap DOMAIN issues' :
             /\ issues'[i].created_at = issues[i].created_at
             /\ issues'[i].parent_id = issues[i].parent_id]_vars

\* a create has just returned 3 while 1 is stored and 2, deleted before, is not
C19_Witness ==
    /\ last.op = "create_issue" /\ last.ret = "ok"
    /\ last.a = 3
    /\ DOMAIN issues = {1, 3}

\* C20: in every reachable state each stored relation row has
\* issue_id_1 < issue_id_2, and an unordered pair of issues has at most one row.
C20_RelationsOrdered ==
    /\ \A r \in Rows(relations) : r.issue_id_1 < r.issue_id_2 /\ relations[r] = 1
    /\ \A a, b \in IdArgs : Cardinality(PairRows(relations, a, b)) <= 1

\* add_relation(a, b) with a > b has just returned true and the row stored for
\* the pair is (b, a)
C20_Witness ==
    /\ last.op = "add_relation" /\ last.ret = "true"
    /\ last.a > last.b
    /\ PairRows(relations, last.a, last.b) = {Rel(last.b, last.a)}

\* relatedness read from both ends agrees, and each result is in ascending id
\* order (so without duplicates)
RelatedSymmetric(iss, rels) ==
    /\ \A a, b \in IdArgs :
          b \in Range(get_related_issues(iss, rels, a))
              <=> a \in Range(get_related_issues(iss, rels, b))
    /\ \A a \in IdArgs : Ascending(get_related_issues(iss, rels, a))

\* C21: remove_relation(b, a) removes the row add_relation(a, b) stored and
\* returns true, or returns false when the pair has no row; no other row
\* changes; in every state b is in get_related_issues(a) if and only if a is
\* in get_related_issues(b), and the result is ascending without duplicates.
C21_RemoveRelationSymmetric ==
    /\ []RelatedSymmetric(issues, relations)
    /\ [][last'.op = "remove_relation"
             => LET a == last'.a
                    b == last'.b
                IN /\ last'.ret = Bool(PairRows(relations, a, b) # {})
                   /\ PairRows(relations', a, b) = {}
                   /\ Rows(relations') = Rows(relations) \ PairRows(relations, a, b)
                   /\ \A r \in Rows(relations') : relations'[r] = relations[r]
                   /\ a \notin Range(get_related_issues(issues', relations', b))
                   /\ b \notin Range(get_related_issues(issues', relations', a))]_vars

\* remove_relation(a, b) with a > b has just returned true for the row (b, a);
\* two relations are left and one issue has both others as related issues
C21_Witness ==
    /\ last.op = "remove_relation" /\ last.ret = "true"
    /\ last.a > last.b
    /\ \E c \in DOMAIN issues :
          /\ Len(get_related_issues(issues, relations, c)) = 2
          /\ \A d \in Range(get_related_issues(issues, relations, c)) :
                c \in Range(get_related_issues(issues, relations, d))

\* C22: the archive command on an issue that is already archived completes
\* without an error and leaves the issue's status and everything else as it was.
C22_DoubleArchiveNoError ==
    [][(last'.op = "archive" /\ get_issue(last'.a)
        /\ issues[last'.a].status = "archived")
       => /\ last'.ret = "ok"
          /\ UNCHANGED <<issue_vars, edge_vars, other_vars>>]_vars

\* the value a column has after an update with argument arg (NoText is None)
Supplied(arg, old) == IF arg # NoText THEN arg ELSE old

\* C23: update_issue(id, title?, description?, priority?) on a stored issue
\* returns true, sets the supplied fields and updated_at of that issue and
\* nothing else: its other fields, every other issue and the edge tables are
\* as before, also when no field is supplied.
C23_UpdateFrame ==
    [][(last'.op = "update_issue" /\ get_issue(last'.a))
       => LET id == last'.a
              old == issues[id]
              new == issues'[id]
          IN /\ last'.ret = "true"
             /\ DOMAIN issues' = DOMAIN issues
             /\ new.title = Supplied(last'.b[1], old.title)
             /\ new.description = Supplied(last'.b[2], old.description)
             /\ new.priority = Supplied(last'.b[3], old.priority)
             /\ new.updated_at = now
             /\ new.status = old.status /\ new.closed_at = old.closed_at
             /\ new.parent_id = old.parent_id /\ new.created_at = old.created_at
             /\ \A j \in DOMAIN issues \ {id} : issues'[j] = issues[j]
             /\ UNCHANGED <<seq, edge_vars>>]_vars

\* update_issue with no field supplied has just returned true on a closed
\* issue that blocks another: the title of an earlier update, the description
\* and priority of its creation and its closed_at are kept, updated_at is now
C23_Witness ==
    /\ last.op = "update_issue" /\ last.ret = "true"
    /\ last.b = <<NoText, NoText, NoText>>
    /\ issues[last.a].title = "t2" /\ issues[last.a].priority = "medium"
    /\ issues[last.a].description = NoText
    /\ issues[last.a].status = "closed" /\ issues[last.a].closed_at < now
    /\ issues[last.a].updated_at = now
    /\ \E d \in Rows(dependencies) : d.blocker_id = last.a

\* C28: in every reachable state the parent relation is a tree over the stored
\* issues: a parent_id that is set names a different stored issue, and the
\* parent_id links from an issue never lead back to it.
C28_ParentTree ==
    \A i \in DOMAIN issues :
        /\ issues[i].parent_id # NULL
              => issues[i].parent_id \in DOMAIN issues /\ issues[i].parent_id # i
        /\ i \notin AncestorsWithin(issues, i, MaxId)

\* the calls that write updated_at of the one issue they name
Stamping == {"update_issue", "close_issue", "reopen_issue", "archive_issue",
             "unarchive_issue", "update_parent"}

\* C29: a call of update_issue, close_issue, reopen_issue, archive_issue,
\* unarchive_issue or update_parent that returns true sets updated_at of its
\* issue to the time of the call, and archive_older_than does so for each issue
\* it archives; a call that fails or matches no row changes no issue; no
\* other issue's updated_at changes; so updated_at never decreases and is
\* never earlier than created_at.
C29_UpdatedAtAdvances ==
    [][/\ \A i \in DOMAIN issues \cap DOMAIN issues' :
             /\ issues'[i].updated_at >= issues[i].updated_at
             /\ issues'[i].updated_at >= issues'[i].created_at
       /\ (last'.op \in Stamping /\ last'.ret = "true")
             => /\ issues'[last'.a].updated_at = now
                /\ \A j \in DOMAIN issues \ {last'.a} : issues'[j] = issues[j]
       /\ (last'.op \in Stamping /\ last'.ret # "true") => issues' = issues
       /\ last'.op = "archive_older_than"
             => \A i \in DOMAIN issues :
                   IF issues'[i].status # issues[i].status
                   THEN issues'[i].updated_at = now
                   ELSE issues'[i] = issues[i]]_vars

\* update_parent has just returned true at a later time than the creation of
\* its issue and stamped it, while the other issue keeps its earlier updated_at
C29_Witness ==
    /\ last.op = "update_parent" /\ last.ret = "true"
    /\ last.b # NULL
    /\ issues[last.a].parent_id = last.b
    /\ issues[last.a].created_at < now /\ issues[last.a].updated_at = now
    /\ \E j \in DOMAIN issues \ {last.a} : issues[j].updated_at < now

\* C27: add_dependency(x, x) on a stored issue x is not rejected: it returns
\* true the first time (false when the self-edge is stored already) and the
\* edge x -> x is stored afterwards; in every state where x is open and the
\* self-edge is stored, x is in list_blocked_issues() and not in
\* list_ready_issues().
C27_SelfDependencyBlocks ==
    /\ [](\A x \in DOMAIN issues :
            (issues[x].status = "open" /\ Dep(x, x) \in Rows(dependencies))
                => x \in Blocked /\ x \notin Ready)
    /\ [][(last'.op = "add_dependency" /\ last'.a = last'.b /\ get_issue(last'.a))
          => LET x == last'.a
             IN /\ last'.ret = Bool(Dep(x, x) \notin Rows(dependencies))
                /\ Dep(x, x) \in Rows(dependencies')
                /\ dependencies'[Dep(x, x)] = 1]_vars

\* add_dependency(x, x) has just returned true on an open issue with no other
\* blocker: x is the blocked list and is not ready
C27_Witness ==
    /\ last.op = "add_dependency" /\ last.ret = "true"
    /\ last.a = last.b
    /\ issues[last.a].status = "open"
    /\ AllBlockers(last.a) = {last.a}
    /\ list_blocked_issues(issues, dependencies) = <<last.a>>
    /\ last.a \notin Range(list_ready_issues(issues, dependencies))

\* C25: the relate add command fails with a not-found error and leaves the
\* relation set as it is when either id is no stored issue; when both are
\* stored and differ it succeeds and the pair is related afterwards.
C25_RelateAddChecksBoth ==
    [][last'.op = "relate_add"
       => LET a == last'.a
              b == last'.b
          IN IF a \notin DOMAIN issues \/ b \notin DOMAIN issues
             THEN last'.ret = "not_found" /\ UNCHANGED <<issue_vars, edge_vars>>
             ELSE a # b
                    => /\ last'.ret = "ok"
                       /\ PairRows(relations', a, b) # {}
                       /\ b \in Range(get_related_issues(issues', relations', a))]_vars

\* the relate add command has just failed with not-found for a stored issue and
\* the id of a deleted one; the relation stored before is still there
C25_Witness ==
    /\ last.op = "relate_add" /\ last.ret = "not_found"
    /\ last.a \in DOMAIN issues
    /\ last.b \notin DOMAIN issues /\ last.b <= seq
    /\ NumRows(relations) = 1
    /\ PairRows(relations, last.a, last.b) = {}

\* the stored issues that are members of milestone m
Members(m) == {i \in DOMAIN issues : Member(m, i) \in Rows(milestone_issues)}

\* C26: the progress shown for a milestone is closed/total, computed from the
\* present state: total is the number of issues that are members now, closed
\* the number of those whose status is closed; closed never exceeds total, a
\* milestone without members shows 0/0, and showing it changes nothing.
C26_MilestoneProgress ==
    [][(last'.op = "show" /\ last'.ret = "ok")
       => LET m == last'.a
              closed == last'.b[1]
              total == last'.b[2]
          IN /\ total = Cardinality(Members(m))
             /\ closed = Cardinality({i \in Members(m) : issues[i].status = "closed"})
             /\ closed <= total
             /\ Members(m) = {} => last'.b = <<0, 0>>
             /\ UNCHANGED <<issue_vars, edge_vars, other_vars>>]_vars

\* a milestone with a closed, an archived and an open member has just been
\* shown as 1/3
C26_Witness ==
    /\ last.op = "show" /\ last.ret = "ok"
    /\ last.b = <<1, 3>>
    /\ \E i, j \in Members(last.a) :
          issues[i].status = "archived" /\ issues[j].status = "open"

\* the priorities and templates the create commands accept
Accepted == {"low", "medium", "high", "critical"}
Known == {"bug", "feature", "refactor", "research"}

\* the priority in force: a template replaces the priority medium by its own
Defaulted(priority, template) ==
    IF template \in Known /\ priority = "medium"
    THEN (CASE template = "bug" -> "high" [] template = "feature" -> "medium" [] OTHER -> "low")
    ELSE priority

\* C24: the create command with an unknown template name, or with a priority
\* (after template defaulting) outside low, medium, high, critical, fails
\* before any write, and so does the sub-issue command with such a priority or
\* with a parent that is no stored issue: no issue is created and no label
\* added. A command that succeeds stores an issue with an accepted priority.
C24_CreateValidates ==
    [][/\ last'.op = "run"
             => LET priority == last'.b[1]
                    template == last'.b[2]
                    bad == \/ template # NoText /\ template \notin Known
                           \/ Defaulted(priority, template) \notin Accepted
                IN IF bad
                   THEN /\ last'.ret \in {"unknown_template", "invalid_priority"}
                        /\ UNCHANGED <<issue_vars, edge_vars, other_vars>>
                   ELSE /\ last'.ret = "ok"
                        /\ issues'[last'.a].priority = Defaulted(priority, template)
       /\ last'.op = "run_subissue"
             => LET priority == last'.b[1]
                    parent_id == last'.b[2]
                IN IF priority \notin Accepted \/ parent_id \notin DOMAIN issues
                   THEN /\ last'.ret \in {"invalid_priority", "not_found"}
                        /\ UNCHANGED <<issue_vars, edge_vars, other_vars>>
                   ELSE /\ last'.ret = "ok"
                        /\ issues'[last'.a].priority = priority
                        /\ issues'[last'.a].parent_id = parent_id]_vars

\* the create command with template bug and priority urgent has just failed;
\* the issue an earlier bug-template command created, with the template's
\* priority and label, is all there is
C24_Witness ==
    /\ last.op = "run" /\ last.ret = "invalid_priority"
    /\ last.b = <<"urgent", "bug">>
    /\ DOMAIN issues = {1} /\ seq = 1
    /\ issues[1].priority = "high"
    /\ Rows(labels) = {Label(1, "bug")}

\* the issues table reduced to what the claim lets the lists depend on: the
\* ids and their status, every other column set to a fixed value
StatusOnly(iss) ==
    [i \in DOMAIN iss |->
        [title |-> "-", description |-> NoText, status |-> iss[i].status,
         priority |-> "-", parent_id |-> NULL,
         created_at |-> 0, updated_at |-> 0, closed_at |-> NULL]]

\* the calls that only read
Queries == {"list_ready_issues", "list_blocked_issues", "get_blockers", "get_blocking"}

\* C30: list_ready_issues, list_blocked_issues, get_blockers and get_blocking
\* change no table; what they return is computed from the state at the call;
\* the ready and the blocked ids depend on the statuses of the issues and on
\* the dependency edges only, so two states that agree on these give the same
\* lists, and a step that changes neither changes no list.
C30_QueriesPure ==
    /\ [](/\ list_ready_issues(StatusOnly(issues), dependencies)
                = list_ready_issues(issues, dependencies)
           /\ list_blocked_issues(StatusOnly(issues), dependencies)
                = list_blocked_issues(issues, dependencies))
    /\ [][/\ last'.op \in Queries
                 => /\ UNCHANGED <<issue_vars, edge_vars, other_vars>>
                    /\ (last'.op = "list_ready_issues" => Range(last'.b) = ReadyAfter)
                    /\ (last'.op = "list_blocked_issues" => Range(last'.b) = BlockedAfter)
                    /\ (last'.op = "get_blockers"
                          => Range(last'.b)
                               = {a \in IdArgs : Dep(a, last'.a) \in Rows(dependencies')})
                    /\ (last'.op = "get_blocking"
                          => Range(last'.b)
                               = {b \in IdArgs : Dep(last'.a, b) \in Rows(dependencies')})
          /\ (/\ DOMAIN issues' = DOMAIN issues
              /\ \A i \in DOMAIN issues : issues'[i].status = issues[i].status
              /\ dependencies' = dependencies)
                => ReadyAfter = Ready /\ BlockedAfter = Blocked]_vars

\* list_ready_issues has just returned one issue while the other is blocked by
\* it; the ready issue was edited at a later time than it was created
C30_Witness ==
    /\ last.op = "list_ready_issues" /\ Len(last.b) = 1
    /\ issues[last.b[1]].updated_at > issues[last.b[1]].created_at
    /\ issues[last.b[1]].title = "t2"
    /\ Len(list_blocked_issues(issues, dependencies)) = 1
    /\ get_blocking(dependencies, last.b[1]) = list_blocked_issues(issues, dependencies)

\* the issues table after close_issue(A) and then reopen_issue(A)
ClosedThenReopened(A) ==
    reopen_issue_rows(close_issue_rows(issues, A, now), A, now)

\* the calls that close or archive
Closing == {"close_issue", "archive_issue", "archive", "archive_older_than"}

\* C31: closing or archiving an issue changes no dependency edge; close_issue(A)
\* followed by reopen_issue(A) on an open issue A gives the ready and blocked
\* lists of before; in the reopen step that follows close_issue(A), every open
\* issue A blocks that was ready after the close is blocked again.
C31_CloseReopenRestores ==
    /\ [](\A A \in DOMAIN issues :
            issues[A].status = "open"
                => /\ list_ready_issues(ClosedThenReopened(A), dependencies)
                        = list_ready_issues(issues, dependencies)
                   /\ list_blocked_issues(ClosedThenReopened(A), dependencies)
                        = list_blocked_issues(issues, dependencies))
    /\ [][/\ last'.op \in Closing \cup {"reopen_issue"} => UNCHANGED edge_vars
          /\ (/\ last.op = "close_issue" /\ last.ret = "true"
              /\ last' = Call("reopen_issue", last.a, 0, "true"))
                => \A B \in Ready :
                      Dep(last.a, B) \in Rows(dependencies)
                          => B \in BlockedAfter /\ B \notin ReadyAfter]_vars

\* reopen_issue(A) has just returned true; A is open and ready again, the open
\* issue it blocks is the blocked list again, and a second blocker of that
\* issue is still closed
C31_Witness ==
    /\ last.op = "reopen_issue" /\ last.ret = "true"
    /\ issues[last.a].status = "open"
    /\ last.a \in Ready
    /\ \E B \in DOMAIN issues \ {last.a} :
          /\ Blocked = {B}
          /\ OpenBlockers(B) = {last.a}
          /\ \E c \in AllBlockers(B) : issues[c].status = "closed"

\* C32: with the statements of two processes interleaved, the archive command
\* never turns an open issue into an archived one: when the issue was reopened
\* between the command's check and its update, the update changes nothing and
\* the issue stays open; no step of the run takes an issue from open to archived.
C32_ArchiveRaceKeepsOpen ==
    [][/\ \A i \in DOMAIN issues \cap DOMAIN issues' :
             issues[i].status = "open" => issues'[i].status # "archived"
       /\ (last'.op = "archive" /\ last'.ret = "ok" /\ get_issue(last'.a)
           /\ issues[last'.a].status = "open")
             => /\ issues' = issues
                /\ last'.b = "false"
                /\ issues'[last'.a].status = "open"]_vars

\* the update of an archive command has just run on an issue that another
\* process reopened after the command's check: nothing was archived
C32_Witness ==
    /\ last.op = "archive" /\ last.ret = "ok" /\ last.b = "false"
    /\ pc = NULL
    /\ get_issue(last.a) /\ issues[last.a].status = "open"
    /\ issues[last.a].closed_at = NULL

\* C33: archive_older_than(days) archives exactly the issues that are closed
\* with closed_at earlier than now - days, keeping their closed_at, and returns
\* how many they are; every other issue (open, archived already, or closed at
\* the cutoff or later) and every edge table is unchanged.
C33_ArchiveOlderThanExact ==
    [][last'.op = "archive_older_than"
       => LET days == last'.a
              moved == {i \in DOMAIN issues :
                           /\ issues[i].status = "closed"
                           /\ issues[i].closed_at < now - days}
          IN /\ DOMAIN issues' = DOMAIN issues
             /\ last'.b = Cardinality(moved)
             /\ \A i \in moved :
                   /\ issues'[i].status = "archived"
                   /\ issues'[i].closed_at = issues[i].closed_at
             /\ \A i \in DOMAIN issues \ moved : issues'[i] = issues[i]
             /\ UNCHANGED <<seq, edge_vars>>]_vars

\* archive_older_than(0) has just archived one issue, closed at an earlier
\* time, and left the issue closed at the present time closed
C33_Witness ==
    /\ last.op = "archive_older_than" /\ last.a = 0 /\ last.b = 1
    /\ \E i, j \in DOMAIN issues :
          /\ issues[i].status = "archived" /\ issues[i].closed_at < now
          /\ issues[i].updated_at = now
          /\ issues[j].status = "closed" /\ issues[j].closed_at = now

\* C34: the milestone add command fails and changes nothing when the
\* milestone does not exist; otherwise it returns Ok having gone through the
\* whole list: the milestone's rows afterwards are the rows it had plus one
\* row for every listed id that is an issue, no row is stored twice, and
\* nothing else changes.
C34_MilestoneAddList ==
    [][last'.op = "add"
       => LET m == last'.a
              listed == {i \in Range(last'.b) : i \in DOMAIN issues}
          IN /\ UNCHANGED <<issue_vars, dependencies, relations, other_vars, now>>
             /\ IF m \notin DOMAIN milestones
                THEN /\ last'.ret = "not_found"
                     /\ UNCHANGED milestone_issues
                ELSE /\ last'.ret = "ok"
                     /\ Rows(milestone_issues') =
                           Rows(milestone_issues) \cup {Member(m, i) : i \in listed}
                     /\ \A r \in Rows(milestone_issues) :
                           milestone_issues'[r] = milestone_issues[r]
                     /\ \A i \in listed : milestone_issues'[Member(m, i)] = 1]_vars

\* an add over a list of an id that is no issue and then the same issue
\* twice has returned Ok, and that issue is a member stored once
C34_Witness ==
    /\ last.op = "add" /\ last.ret = "ok" /\ Len(last.b) = 3
    /\ last.b[1] \notin DOMAIN issues
    /\ last.b[2] = last.b[3]
    /\ last.b[2] \in Members(last.a)
    /\ milestone_issues[Member(last.a, last.b[2])] = 1

====
